---- MODULE Spec2Model ----
(***************************************************************************)
(* A model of ImageToolAIO: the batch image pipeline process_images of     *)
(* ImageToolAIO.py (PIL) and ImageTool-AIO-CUDA.py (torchvision), the pure *)
(* helpers crop_image, handle_metadata and save_image, and the directory   *)
(* the pipeline rewrites in place.                                         *)
(*                                                                         *)
(* File names are triples <<u, stem, ext>>: u leading underscores, the     *)
(* rest of the stem, and the extension, so that "_" + stem + "." + format  *)
(* is computed and two paths are equal exactly when the strings are.       *)
(***************************************************************************)
EXTENDS Integers, Sequences, FiniteSets, TLC

VARIABLES
  cfg,                \* the arguments of process_images
  fs,                 \* the directory: file name -> content (or Absent)
  fs0,                \* the directory as it was when the run began
  listing,            \* the snapshot os.listdir returned, in its order
  idx,                \* entries of listing the for loop has consumed
  pc,                 \* position of process_images
  cur,                \* the loop body's locals for the file in hand
  total_files,        \* process_images' counter
  total_space_saved,  \* process_images' accumulator
  log,                \* per entry of listing: what became of it
  summary,            \* what the end-of-run summary printed
  cropIn,             \* crop_image's arguments (unit level)
  cropOut             \* crop_image's result (unit level)

vars == <<cfg, fs, fs0, listing, idx, pc, cur, total_files, total_space_saved,
          log, summary, cropIn, cropOut>>

pipeVars == <<cfg, fs, fs0, listing, idx, pc, cur, total_files,
              total_space_saved, log, summary>>

-----------------------------------------------------------------------------
(* Python float arithmetic: IEEE-754 binary64, round to nearest, ties to    *)
(* even.  A significand is a sequence of bits, most significant first, so   *)
(* that every intermediate number stays small.                              *)

MantissaBits == 53

RECURSIVE Pow2(_)
Pow2(k) == IF k = 0 THEN 1 ELSE 2 * Pow2(k - 1)

\* 2^j mod d, by repeated squaring
RECURSIVE Pow2Mod(_, _)
Pow2Mod(j, d) ==
  IF j = 0 THEN 1 % d
  ELSE IF j % 2 = 0 THEN LET h == Pow2Mod(j \div 2, d) IN (h * h) % d
  ELSE (2 * Pow2Mod(j - 1, d)) % d

\* number of doublings of n until 2n >= d (the leading zero bits of n/d, 0 < n < d)
RECURSIVE LeadShift(_, _)
LeadShift(n, d) == IF 2 * n >= d THEN 0 ELSE 1 + LeadShift(2 * n, d)

\* what is left of n/d after k bits of its binary expansion, as a numerator
\* over d (0 <= n < d): n * 2^k mod d
FracRem(n, d, k) == (n * Pow2Mod(k, d)) % d

\* the first k bits of the binary expansion of n/d, 0 <= n < d: long division
FracBits(n, d, k) ==
  [i \in 1..k |-> IF 2 * FracRem(n, d, i - 1) >= d THEN 1 ELSE 0]

Zeros(k) == [i \in 1..k |-> 0]

\* bits + 1
IncBits(bits) ==
  LET n     == Len(bits)
      zeros == {i \in 1..n : bits[i] = 0}
  IN  IF zeros = {} THEN <<1>> \o Zeros(n)
      ELSE LET j == CHOOSE i \in zeros : \A k \in zeros : k <= i
           IN  SubSeq(bits, 1, j - 1) \o <<1>> \o Zeros(n - j)

\* round to nearest, ties to even: above says more than half an ulp was
\* dropped, tie says exactly half
RoundBits(bits, above, tie) ==
  IF above \/ (tie /\ bits # <<>> /\ bits[Len(bits)] = 1)
  THEN IncBits(bits) ELSE bits

StripZeros(bits) ==
  LET ones == {i \in 1..Len(bits) : bits[i] = 1}
  IN  IF ones = {} THEN <<>>
      ELSE SubSeq(bits, CHOOSE i \in ones : \A k \in ones : i <= k, Len(bits))

RECURSIVE BitsToNat(_)
BitsToNat(bits) ==
  IF bits = <<>> THEN 0
  ELSE 2 * BitsToNat(SubSeq(bits, 1, Len(bits) - 1)) + bits[Len(bits)]

NatToBits(x, width) == [i \in 1..width |-> (x \div Pow2(width - i)) % 2]

AnyOne(bits) == \E i \in 1..Len(bits) : bits[i] = 1

\* a significand is multiplied in limbs so that no product leaves 31 bits
LimbBits == 15
LimbBase == Pow2(LimbBits)

\* bits * m for a natural m < 2^15 and at most 60 bits
MulBits(bits, m) ==
  LET padded == Zeros(4 * LimbBits - Len(bits)) \o bits
      limb(k) == BitsToNat(SubSeq(padded, (4 - k) * LimbBits + 1,
                                          (5 - k) * LimbBits))
      t1 == limb(1) * m
      t2 == limb(2) * m + t1 \div LimbBase
      t3 == limb(3) * m + t2 \div LimbBase
      t4 == limb(4) * m + t3 \div LimbBase
  IN  NatToBits(t4, 2 * LimbBits) \o NatToBits(t3 % LimbBase, LimbBits)
        \o NatToBits(t2 % LimbBase, LimbBits) \o NatToBits(t1 % LimbBase, LimbBits)

\* the float p / d for integers 0 < p < d: [m |-> significand, s |-> scale],
\* its value m * 2^-s
FloatDiv(p, d) ==
  LET z   == LeadShift(p, d)
      n   == p * Pow2(z)
      raw == FracBits(n, d, MantissaBits)
      r   == FracRem(n, d, MantissaBits)
  IN  [m |-> RoundBits(raw, 2 * r > d, 2 * r = d), s |-> z + MantissaBits]

\* the float x * k for a float x and an integer k (itself exact as a float)
FloatMulInt(x, k) ==
  LET prod == StripZeros(MulBits(x.m, k))
      L    == Len(prod)
  IN  IF L <= MantissaBits THEN [m |-> prod, s |-> x.s]
      ELSE LET keep == SubSeq(prod, 1, MantissaBits)
               rest == SubSeq(prod, MantissaBits + 1, L)
               half == rest[1] = 1
               more == AnyOne(Tail(rest))
           IN  [m |-> RoundBits(keep, half /\ more, half /\ ~more),
                s |-> x.s - (L - MantissaBits)]

\* Python's int() of a non-negative float below 2^31: truncation
FloatToInt(x) ==
  LET L == Len(x.m) IN
  IF x.s >= L THEN 0
  ELSE IF x.s <= 0 THEN BitsToNat(x.m) * Pow2(0 - x.s)
  ELSE BitsToNat(SubSeq(x.m, 1, L - x.s))

-----------------------------------------------------------------------------
(* crop_image                                                               *)

Edges == {"top", "bottom", "left", "right"}

\* the percentages and the image dimensions the model draws from
CropPercents == 0..100
UnitDims     == {3, 50, 100}
StartSize    == [w |-> 100, h |-> 50]
RunPercents  == {0, 20, 100}
\* crop and resize only shrink an image, so a run meets no larger dimension
RunDims      == 0..StartSize.w

\* int((crop_percent / 100.0) * dimension), crop_percent an integral float in
\* 0..100 (100 / 100.0 is exactly 1.0)
CropAmount(crop_percent, dim) ==
  IF crop_percent = 0 \/ dim = 0 THEN 0
  ELSE IF crop_percent = 100 THEN dim
  ELSE FloatToInt(FloatMulInt(FloatDiv(crop_percent, 100), dim))

\* crop_amount_width / crop_amount_height, tabulated once (@@ makes the
\* table an explicit one)
crop_amount ==
  [a \in (CropPercents \X UnitDims) \cup (RunPercents \X RunDims) |->
     CropAmount(a[1], a[2])] @@ <<>>

None == [kind |-> "none"]

\* PIL's Image.crop((left, upper, right, lower)) of a region of the source
PilCrop(img, left, upper, right, lower) ==
  [img EXCEPT !.x = img.x + left, !.y = img.y + upper,
              !.w = right - left, !.h = lower - upper, !.cropped = TRUE]

\* torchvision's crop(img, top, left, height, width)
TorchCrop(img, top, left, height, width) ==
  [img EXCEPT !.x = img.x + left, !.y = img.y + top,
              !.w = width, !.h = height, !.cropped = TRUE]

\* ImageToolAIO.py crop_image
crop_image(img, crop_percent, crop_position) ==
  LET width  == img.w
      height == img.h
      crop_amount_width  == crop_amount[crop_percent, width]
      crop_amount_height == crop_amount[crop_percent, height]
  IN  CASE crop_position = "top" ->
             PilCrop(img, 0, crop_amount_height, width, height)
        [] crop_position = "bottom" ->
             PilCrop(img, 0, 0, width, height - crop_amount_height)
        [] crop_position = "left" ->
             PilCrop(img, crop_amount_width, 0, width, height)
        [] crop_position = "right" ->
             PilCrop(img, 0, 0, width - crop_amount_width, height)
        [] OTHER -> None

\* ImageTool-AIO-CUDA.py crop_image
crop_image_cuda(img, crop_percent, crop_position) ==
  LET width  == img.w
      height == img.h
      crop_amount_width  == crop_amount[crop_percent, width]
      crop_amount_height == crop_amount[crop_percent, height]
  IN  CASE crop_position = "top" ->
             TorchCrop(img, crop_amount_height, 0, height - crop_amount_height, width)
        [] crop_position = "bottom" ->
             TorchCrop(img, 0, 0, height - crop_amount_height, width)
        [] crop_position = "left" ->
             TorchCrop(img, 0, crop_amount_width, height, width - crop_amount_width)
        [] crop_position = "right" ->
             TorchCrop(img, 0, 0, height, width - crop_amount_width)
        [] OTHER -> None

\* a decoded w x h image: the region of the pixels of src it shows, and what
\* has been done to them
Pixels(src, fmt, w, h, exif) ==
  [kind |-> "image", src |-> src, fmt |-> fmt, x |-> 0, y |-> 0, w |-> w, h |-> h,
   exif |-> exif, text |-> FALSE,
   cropped |-> FALSE, compressed |-> FALSE, resized |-> FALSE]

-----------------------------------------------------------------------------
(* The directory                                                            *)

\* str.lower() on the extensions the model uses
Lower(ext) == IF ext = "JPG" THEN "jpg" ELSE ext

\* process_images' formats tuple and its filename.lower().endswith(formats)
formats == {"png", "jpg", "jpeg", "webp"}
Qualifies(filename) == Lower(filename[3]) \in formats

\* the files a directory may hold when a run begins: a.jpeg, a.png (the same
\* stem), _a.jpeg (an underscore name, such as an earlier run left behind)
\* and a file that is no image
FileA   == <<0, "a", "jpeg">>
FileB   == <<0, "a", "png">>
FileU   == <<1, "a", "jpeg">>
FileTxt == <<0, "n", "txt">>
NamePool == {FileA, FileB, FileU, FileTxt}

\* most entries a directory holds
MaxFiles == 3

\* the format the decoder reports for a file (Image.format.lower())
DecodedFormat(filename) ==
  LET e == Lower(filename[3]) IN IF e = "jpg" THEN "jpeg" ELSE e

\* what a file holds before the run: a.jpeg and a.png carry an EXIF block,
\* _a.jpeg carries none
InitialContent(filename) ==
  IF ~Qualifies(filename) THEN [kind |-> "other"]
  ELSE Pixels(filename, DecodedFormat(filename), StartSize.w, StartSize.h,
              IF filename[1] = 0 THEN "orig" ELSE "none")

\* a file a failed write left truncated
Partial == [kind |-> "partial"]

\* os.path.getsize: the length of the encoding, a function of what was
\* encoded (png is the largest, a quality pass halves the pixel data, an
\* EXIF block and text chunks add their bytes)
getsize(content) ==
  CASE content.kind = "image" ->
         LET px == content.w * content.h *
                   (IF content.fmt = "png" THEN 3 ELSE 1)
         IN  (IF content.compressed THEN px \div 2 ELSE px)
             + (CASE content.exif = "orig" -> 64
                  [] content.exif = "empty" -> 8
                  [] OTHER -> 0)
             + (IF content.text THEN 32 ELSE 0)
    [] content.kind = "partial" -> 1
    [] OTHER -> 16

Exists(dir, path) == path \in DOMAIN dir

\* a file created or overwritten
Write(dir, path, content) ==
  [p \in DOMAIN dir \cup {path} |-> IF p = path THEN content ELSE dir[p]]

\* os.remove
Remove(dir, path) == [p \in DOMAIN dir \ {path} |-> dir[p]]

\* os.rename(src, dst) on an existing src: dst is replaced
Rename(dir, src, dst) == Write(Remove(dir, src), dst, dir[src])

\* os.path.join(directory, '_' + os.path.splitext(filename)[0] + '.' + save_format.lower())
TempPath(filename, save_format) ==
  <<filename[1] + 1, filename[2], Lower(save_format)>>

\* the orders os.listdir may return the entries of a directory in
RECURSIVE Orderings(_)
Orderings(S) ==
  IF S = {} THEN {<<>>}
  ELSE UNION {{<<f>> \o rest : rest \in Orderings(S \ {f})} : f \in S}

Listings ==
  UNION {Orderings(S) : S \in {T \in SUBSET NamePool :
                                 Cardinality(T) \in 1..MaxFiles}}

-----------------------------------------------------------------------------
(* The arguments of process_images                                          *)

\* __main__ of ImageToolAIO.py: crop_percent is 0 and crop_position '' unless
\* crop was chosen, resize_percent 100 unless resize was, add_metadata {}
\* when keep_metadata is; "jpg" is the alias of "jpeg"
SaveFormats == {"jpg", "png", "webp"}

PilConfigs ==
  {c \in [variant : {"pil"}, crop : BOOLEAN, crop_percent : RunPercents,
          crop_position : {"", "top", "left"}, keep_metadata : BOOLEAN,
          save_format : SaveFormats, compress : BOOLEAN, resize : BOOLEAN,
          resize_percent : {1, 50, 100}, add_metadata : {{}, {"author"}}] :
     /\ (~c.crop => c.crop_percent = 0 /\ c.crop_position = "")
     /\ (c.crop => <<c.crop_percent, c.crop_position>> \in
                     {<<20, "top">>, <<100, "left">>})
     /\ (c.resize <=> c.resize_percent # 100)
     /\ (c.keep_metadata => c.add_metadata = {})}

\* ImageTool-AIO-CUDA.py process_images takes no crop flag (it always crops)
\* and never reads add_metadata
CudaConfigs ==
  {c \in [variant : {"cuda"}, crop : {TRUE}, crop_percent : RunPercents,
          crop_position : {"top", "left"}, keep_metadata : BOOLEAN,
          save_format : SaveFormats, compress : BOOLEAN, resize : BOOLEAN,
          resize_percent : {1, 50, 100}, add_metadata : {{}}] :
     /\ <<c.crop_percent, c.crop_position>> \in
          {<<0, "top">>, <<20, "top">>, <<100, "left">>}
     /\ (c.resize <=> c.resize_percent # 100)}

Configs == PilConfigs \cup CudaConfigs

-----------------------------------------------------------------------------
(* handle_metadata, save_image and the stages' encoders                     *)

\* bool(exif_bytes)
Truthy(exif_bytes) ==
  \/ exif_bytes.kind = "bytes"
  \/ exif_bytes.kind = "dict" /\ ~exif_bytes.empty

\* ImageToolAIO.py handle_metadata: piexif.load(img_path) reads the file, and
\* piexif.dump of a file without EXIF is an empty but non-empty-bytes block;
\* for png the entries of img.info whose key starts with 'exif', as a dict
handle_metadata(img, content, keep_metadata, format) ==
  IF format = "jpeg" /\ keep_metadata
  THEN [kind |-> "bytes",
        exif |-> IF content.exif = "none" THEN "empty" ELSE content.exif]
  ELSE IF format = "png" /\ keep_metadata
  THEN [kind |-> "dict", empty |-> img.exif = "none"]
  ELSE None

\* ImageTool-AIO-CUDA.py handle_metadata
handle_metadata_cuda(img, content, keep_metadata, format) == None

\* what an encoder writes for an image: no EXIF and no text unless given
Encode(img, format, exif, text) ==
  [img EXCEPT !.fmt = format, !.exif = exif, !.text = text]

\* an encoder refuses no image and an image without pixels
Unencodable(img) == img = None \/ img.w <= 0 \/ img.h <= 0

\* ImageToolAIO.py save_image: [raised, wrote, content].  Pillow's JPEG
\* writer takes exif= as bytes and raises on a dict.
save_image(img, format, exif_bytes) ==
  IF Truthy(exif_bytes) /\ format = "jpeg"
  THEN IF Unencodable(img) \/ exif_bytes.kind = "dict"
       THEN [raised |-> TRUE, wrote |-> FALSE, content |-> None]
       ELSE [raised |-> FALSE, wrote |-> TRUE,
             content |-> Encode(img, format, exif_bytes.exif, FALSE)]
  ELSE IF Unencodable(img)
       THEN [raised |-> TRUE, wrote |-> FALSE, content |-> None]
       ELSE [raised |-> FALSE, wrote |-> TRUE,
             content |-> Encode(img, format, "none", FALSE)]

\* ImageTool-AIO-CUDA.py save_image: write_jpeg, write_png, and nothing at
\* all for any other format
save_image_cuda(img, format, exif_bytes) ==
  IF format \in {"jpeg", "png"}
  THEN IF Unencodable(img)
       THEN [raised |-> TRUE, wrote |-> FALSE, content |-> None]
       ELSE [raised |-> FALSE, wrote |-> TRUE,
             content |-> Encode(img, format, "none", FALSE)]
  ELSE [raised |-> FALSE, wrote |-> FALSE, content |-> None]

\* line 97: img.save(new_filepath, optimize=True, quality=compress_quality);
\* the format follows the extension, no exif= is given and Pillow's writers
\* take the EXIF block from the call, not from the opened image
CompressedCopy(content) ==
  [content EXCEPT !.compressed = TRUE, !.exif = "none", !.text = FALSE]

\* line 106 and CUDA line 81: int(d * resize_percent / 100); d * resize_percent
\* is exact as a float and the division is correctly rounded, so for integral
\* arguments the truncation is the integer quotient
ResizedDim(d, resize_percent) == (d * resize_percent) \div 100

\* Image.resize / torchvision resize
Resized(img, resize_percent) ==
  [img EXCEPT !.w = ResizedDim(img.w, resize_percent),
              !.h = ResizedDim(img.h, resize_percent), !.resized = TRUE]

\* lines 116-124: the png text chunks of add_metadata
WithText(content, add_metadata) ==
  [content EXCEPT !.text = add_metadata \cap {"author", "keyword", "copyright"} # {},
                  !.exif = "none"]

\* a sign slip in space_saved
SpaceSaved_Swapped(original_size, new_size) == new_size - original_size

\* line 134: space_saved
SpaceSaved(original_size, new_size) == original_size - new_size

\* an except branch that cleans the temp file up
OnStageError_Cleanup(dir, new_filepath) == Remove(dir, new_filepath)

\* the except branches of the save, compress, resize and metadata stages
\* (lines 90-92, 98-100, 109-111, 128-130): print and continue, nothing on
\* disk is touched
OnStageError(dir, new_filepath) == dir

-----------------------------------------------------------------------------
(* process_images                                                           *)

NoCur ==
  [filename |-> <<>>, opened |-> None, img |-> None, original_size |-> 0,
   exif_bytes |-> None, new_filepath |-> <<>>]

NoSummary == [printed |-> FALSE, files |-> 0, saved |-> 0]

NoCrop == [kind |-> "none"]

\* what became of an entry of the listing
Pending == [outcome |-> "pending", orig |-> 0, final |-> 0]

StageErrors == {"save_err", "compress_err", "resize_err", "meta_err"}

Init ==
  /\ cfg \in Configs
  /\ listing \in Listings
  /\ fs = [f \in {listing[i] : i \in 1..Len(listing)} |-> InitialContent(f)]
  /\ fs0 = fs
  /\ idx = 0
  /\ pc = "scan"
  /\ cur = NoCur
  /\ total_files = 0
  /\ total_space_saved = 0
  /\ log = [i \in 1..Len(listing) |-> Pending]
  /\ summary = NoSummary
  /\ cropIn = NoCrop
  /\ cropOut = NoCrop

unitVars == <<cropIn, cropOut>>

\* the stage that follows `stage` under the toggles: lines 94, 102, 113 and
\* CUDA lines 75, 79
StageAfter(stage) ==
  LET pil == cfg.variant = "pil"
      meta == IF pil /\ cfg.add_metadata # {} /\ ~cfg.keep_metadata
              THEN "metadata" ELSE "commit"
      rsz == IF cfg.resize THEN "resize" ELSE meta
  IN  CASE stage = "save" -> IF pil /\ cfg.compress THEN "compress" ELSE rsz
        [] stage = "compress" -> rsz
        [] stage = "resize" -> meta
        [] OTHER -> "commit"

\* `continue`, or the end of the loop body: on to the next entry
Continue(outcome) ==
  /\ log' = [log EXCEPT ![idx + 1].outcome = outcome]
  /\ idx' = idx + 1
  /\ pc' = "scan"
  /\ cur' = NoCur

\* an exception no except clause catches leaves process_images
Abort(outcome) ==
  /\ log' = [log EXCEPT ![idx + 1].outcome = outcome]
  /\ pc' = "crashed"
  /\ UNCHANGED <<idx, cur>>

\* a stage raised inside its try: the file it was writing is as it was or is
\* left truncated, and the except branch continues
StageFails(outcome, truncated) ==
  /\ fs' = OnStageError(IF truncated THEN Write(fs, cur.new_filepath, Partial)
                                     ELSE fs, cur.new_filepath)
  /\ Continue(outcome)
  /\ UNCHANGED <<cfg, fs0, listing, total_files, total_space_saved, summary,
                 unitVars>>

\* a stage wrote the temp file and the body goes on
StageWrites(content, stage) ==
  /\ fs' = Write(fs, cur.new_filepath, content)
  /\ pc' = StageAfter(stage)
  /\ UNCHANGED <<cfg, fs0, listing, idx, cur, total_files, total_space_saved,
                 log, summary, unitVars>>

\* lines 69-70: an entry whose extension is not an image's
SkipEntry ==
  /\ pc = "scan" /\ idx < Len(listing)
  /\ ~Qualifies(listing[idx + 1])
  /\ idx' = idx + 1
  /\ log' = [log EXCEPT ![idx + 1].outcome = "skipped"]
  /\ UNCHANGED <<cfg, fs, fs0, listing, pc, cur, total_files,
                 total_space_saved, summary, unitVars>>

\* lines 71-73 (CUDA 54-56): Image.open / read_image raises, on a file that is
\* gone or is no image, or on any file the decoder refuses; no try encloses it
OpenFails ==
  /\ pc = "scan" /\ idx < Len(listing)
  /\ Qualifies(listing[idx + 1])
  /\ \E refused \in BOOLEAN :
       IF Exists(fs, listing[idx + 1])
       THEN refused \/ fs[listing[idx + 1]].kind # "image"
       ELSE TRUE
  /\ total_files' = total_files + 1
  /\ Abort("decode_err")
  /\ UNCHANGED <<cfg, fs, fs0, listing, total_space_saved, summary, unitVars>>

\* lines 71-86 (CUDA 54-67): open, baseline, crop, handle_metadata, the
\* format alias and the temp path
NextFile ==
  /\ pc = "scan" /\ idx < Len(listing)
  /\ LET filename == listing[idx + 1] IN
     /\ Qualifies(filename)
     /\ Exists(fs, filename) /\ fs[filename].kind = "image"
     /\ LET opened == fs[filename]
            original_format == IF cfg.variant = "pil" THEN opened.fmt
                               ELSE Lower(filename[3])
            img == IF cfg.variant = "cuda"
                   THEN crop_image_cuda(opened, cfg.crop_percent, cfg.crop_position)
                   ELSE IF cfg.crop
                   THEN crop_image(opened, cfg.crop_percent, cfg.crop_position)
                   ELSE opened
            exif_bytes == IF cfg.variant = "pil"
                          THEN handle_metadata(img, opened, cfg.keep_metadata,
                                               original_format)
                          ELSE handle_metadata_cuda(img, opened, cfg.keep_metadata,
                                                    original_format)
            save_format == IF cfg.save_format = "jpg" THEN "jpeg"
                           ELSE cfg.save_format
        IN  /\ total_files' = total_files + 1
            /\ cfg' = [cfg EXCEPT !.save_format = save_format]
            /\ cur' = [filename |-> filename, opened |-> opened, img |-> img,
                       original_size |-> getsize(opened),
                       exif_bytes |-> exif_bytes,
                       new_filepath |-> TempPath(filename, save_format)]
            /\ log' = [log EXCEPT ![idx + 1].orig = getsize(opened)]
            /\ pc' = "save"
  /\ UNCHANGED <<fs, fs0, listing, idx, total_space_saved, summary, unitVars>>

\* lines 88-92 (CUDA 69-73): the first save to the temp path; a writer may
\* raise of its own (fault) and then leaves the file as it was or truncated,
\* as does Pillow's on an image it opens the file for and cannot encode
Save ==
  /\ pc = "save"
  /\ LET r == IF cfg.variant = "pil"
              THEN save_image(cur.img, cfg.save_format, cur.exif_bytes)
              ELSE save_image_cuda(cur.img, cfg.save_format, cur.exif_bytes)
     IN  \E fault \in BOOLEAN, truncated \in BOOLEAN :
           IF r.raised \/ (fault /\ r.wrote)
           THEN StageFails("save_err",
                           truncated /\ (~r.raised \/ (cfg.variant = "pil"
                                                        /\ cur.img # None)))
           ELSE IF r.wrote THEN StageWrites(r.content, "save")
           ELSE /\ pc' = StageAfter("save")
                /\ UNCHANGED <<cfg, fs, fs0, listing, idx, cur, total_files,
                               total_space_saved, log, summary, unitVars>>

\* lines 94-100: reopen the temp file and save it again with a quality
Compress ==
  /\ pc = "compress"
  /\ \E fault \in BOOLEAN, truncated \in BOOLEAN :
       IF fault \/ ~Exists(fs, cur.new_filepath)
             \/ fs[cur.new_filepath].kind # "image"
       THEN StageFails("compress_err", truncated /\ fault)
       ELSE StageWrites(CompressedCopy(fs[cur.new_filepath]), "compress")

\* lines 102-111: reopen the temp file, resize, save_image again; CUDA lines
\* 79-86 resize the tensor in hand instead
Resize ==
  /\ pc = "resize"
  /\ \E fault \in BOOLEAN, truncated \in BOOLEAN :
       LET pil == cfg.variant = "pil"
           readable == ~pil \/ (Exists(fs, cur.new_filepath)
                                /\ fs[cur.new_filepath].kind = "image")
           src == IF pil THEN fs[cur.new_filepath] ELSE cur.img
           img == IF readable /\ src # None
                  THEN Resized(src, cfg.resize_percent) ELSE None
           r == IF pil THEN save_image(img, cfg.save_format, cur.exif_bytes)
                ELSE save_image_cuda(img, cfg.save_format, cur.exif_bytes)
       IN  IF fault \/ ~readable \/ r.raised
           THEN StageFails("resize_err", truncated /\ fault /\ r.wrote)
           ELSE IF r.wrote THEN StageWrites(r.content, "resize")
           ELSE /\ pc' = StageAfter("resize")
                /\ UNCHANGED <<cfg, fs, fs0, listing, idx, cur, total_files,
                               total_space_saved, log, summary, unitVars>>

\* lines 113-130: reopen the temp file; png gets the text chunks, any other
\* format nothing
AddMetadata ==
  /\ pc = "metadata"
  /\ \E fault \in BOOLEAN, truncated \in BOOLEAN :
       IF fault \/ ~Exists(fs, cur.new_filepath)
             \/ fs[cur.new_filepath].kind # "image"
       THEN StageFails("meta_err", truncated /\ fault /\ cfg.save_format = "png")
       ELSE IF cfg.save_format = "png"
       THEN StageWrites(WithText(fs[cur.new_filepath], cfg.add_metadata),
                        "metadata")
       ELSE /\ pc' = StageAfter("metadata")
            /\ UNCHANGED <<cfg, fs, fs0, listing, idx, cur, total_files,
                           total_space_saved, log, summary, unitVars>>

\* lines 132-140 (CUDA 90-98): getsize, accumulate, os.remove, os.rename.
\* FileNotFoundError is caught; any other OSError of remove or rename (a
\* handle still open, a permission) is not.
Commit ==
  /\ pc = "commit"
  /\ IF ~Exists(fs, cur.new_filepath)
     THEN /\ Continue("temp_missing")
          /\ UNCHANGED <<fs, total_space_saved>>
     ELSE LET new_size == getsize(fs[cur.new_filepath]) IN
          /\ total_space_saved' = total_space_saved
                                    + SpaceSaved(cur.original_size, new_size)
          /\ \E os \in {"ok", "remove_raises", "rename_raises"} :
               IF ~Exists(fs, cur.filename)
               THEN /\ fs' = fs
                    /\ Continue("orig_missing")
                    /\ log'[idx + 1].final = new_size
               ELSE CASE os = "remove_raises" ->
                           /\ fs' = fs
                           /\ Abort("remove_err")
                      [] os = "rename_raises" ->
                           /\ fs' = Remove(fs, cur.filename)
                           /\ Abort("rename_err")
                      [] OTHER ->
                           /\ fs' = Rename(Remove(fs, cur.filename),
                                           cur.new_filepath, cur.filename)
                           /\ log' = [log EXCEPT ![idx + 1].outcome = "committed",
                                                 ![idx + 1].final = new_size]
                           /\ idx' = idx + 1
                           /\ pc' = "scan"
                           /\ cur' = NoCur
  /\ UNCHANGED <<cfg, fs0, listing, total_files, summary, unitVars>>

\* lines 142-143 (CUDA 100-101): the summary
Summary ==
  /\ pc = "scan" /\ idx = Len(listing)
  /\ summary' = [printed |-> TRUE, files |-> total_files,
                 saved |-> total_space_saved]
  /\ pc' = "done"
  /\ UNCHANGED <<cfg, fs, fs0, listing, idx, cur, total_files,
                 total_space_saved, log, unitVars>>

Next ==
  \/ SkipEntry
  \/ OpenFails
  \/ NextFile
  \/ Save
  \/ Compress
  \/ Resize
  \/ AddMetadata
  \/ Commit
  \/ Summary

Spec == Init /\ [][Next]_vars

-----------------------------------------------------------------------------
(* crop_image on its own: every percentage in [0, 100), every edge          *)

InitCrop ==
  /\ cfg = None
  /\ listing = <<>>
  /\ fs = <<>>
  /\ fs0 = <<>>
  /\ idx = 0
  /\ pc = "unit"
  /\ cur = NoCur
  /\ total_files = 0
  /\ total_space_saved = 0
  /\ log = <<>>
  /\ summary = NoSummary
  /\ cropIn \in [kind : {"args"}, crop_percent : CropPercents \ {100},
                 crop_position : Edges, w : UnitDims, h : UnitDims]
  /\ cropOut = NoCrop

UnitImage == Pixels(FileA, "jpeg", cropIn.w, cropIn.h, "none")

\* ImageToolAIO.py crop_image applied to the arguments
CropPil ==
  /\ pc = "unit" /\ cropOut = NoCrop
  /\ cropOut' = [kind |-> "pil",
                 img |-> crop_image(UnitImage, cropIn.crop_percent,
                                    cropIn.crop_position)]
  /\ UNCHANGED <<pipeVars, cropIn>>

\* ImageTool-AIO-CUDA.py crop_image applied to the arguments
CropCuda ==
  /\ pc = "unit" /\ cropOut = NoCrop
  /\ cropOut' = [kind |-> "cuda",
                 img |-> crop_image_cuda(UnitImage, cropIn.crop_percent,
                                         cropIn.crop_position)]
  /\ UNCHANGED <<pipeVars, cropIn>>

NextCrop ==
  \/ CropPil
  \/ CropCuda

SpecCrop == InitCrop /\ [][NextCrop]_vars

-----------------------------------------------------------------------------
(* The claims                                                               *)

Entries == 1..Len(listing)
QualifyingEntries == {i \in Entries : Qualifies(listing[i])}
InStage == pc \in {"save", "compress", "resize", "metadata", "commit"}

\* entry i has just been committed and the loop has not moved on
JustCommitted(i) == log[i].outcome = "committed" /\ idx = i /\ pc = "scan"

\* C1: in process_images the original is never gone while no file exists
\* under its name: at every moment every enumerated image file name names a
\* file of the directory (the original or its replacement), also when the
\* rename of the commit fails.
C1_OriginalNeverLost ==
  \A i \in QualifyingEntries : Exists(fs, listing[i])

\* f is on disk under its own name, its own pixels, in the target format,
\* with every enabled transform applied
FullyProcessed(f) ==
  /\ Exists(fs, f)
  /\ fs[f].kind = "image"
  /\ fs[f].src = f
  /\ fs[f].fmt = cfg.save_format
  /\ (cfg.crop => fs[f].cropped)
  /\ (cfg.compress => fs[f].compressed)
  /\ (cfg.resize => fs[f].resized)

RaisedOutcomes ==
  StageErrors \cup {"decode_err", "remove_err", "rename_err"}

\* C2: failure isolation.  In a finished run over three qualifying files of
\* which one raised in its compress stage and the other two raised nowhere,
\* the other two are committed, are on disk under their own names with the
\* enabled transforms applied, and all three are in the printed count.
C2_FailureIsolation ==
  \A b \in QualifyingEntries :
    ( /\ pc = "done"
      /\ Cardinality(QualifyingEntries) = 3
      /\ log[b].outcome = "compress_err"
      /\ \A i \in QualifyingEntries \ {b} : log[i].outcome \notin RaisedOutcomes )
    => /\ summary.files = 3
       /\ \A i \in QualifyingEntries \ {b} :
            log[i].outcome = "committed" /\ FullyProcessed(listing[i])

\* a three-file run in which the claim's case happened and the two other
\* files are as the claim says
C2_IsolationHappens ==
  \E b \in QualifyingEntries :
    /\ pc = "done"
    /\ Cardinality(QualifyingEntries) = 3
    /\ log[b].outcome = "compress_err"
    /\ \A i \in QualifyingEntries \ {b} :
         log[i].outcome = "committed" /\ FullyProcessed(listing[i])

RECURSIVE SumOver(_, _)
SumOver(f, n) == IF n = 0 THEN 0 ELSE f[n] + SumOver(f, n - 1)

\* the entries whose commit stage measured a temp file
ReachedCommit == {"committed", "orig_missing"}

\* C3: at the summary total_space_saved is the sum of original size minus
\* final temp-file size over exactly the entries whose commit stage measured
\* the temp file; every entry that failed before it, or had no temp file to
\* measure, contributes 0.
C3_SpaceSavedIsSumOverCommitted ==
  summary.printed =>
    summary.saved =
      SumOver([i \in Entries |-> IF log[i].outcome \in ReachedCommit
                                 THEN log[i].orig - log[i].final ELSE 0],
              Len(listing))

\* a summary after one entry committed with a non-zero saving and another
\* failed in a stage
C3_MixedRunSummarised ==
  /\ summary.printed
  /\ \E i \in Entries : log[i].outcome = "committed"
                        /\ log[i].orig # log[i].final
  /\ \E i \in Entries : log[i].outcome \in StageErrors

\* C4: a jpeg input with embedded EXIF, target jpeg: the committed file holds
\* the EXIF block when keep_metadata is true, whatever the crop, compress and
\* resize toggles, and none when it is false (ImageToolAIO.py).
C4_ExifFollowsKeepMetadata ==
  \A i \in Entries :
    ( /\ cfg.variant = "pil"
      /\ cfg.save_format = "jpeg"
      /\ fs0[listing[i]].kind = "image"
      /\ fs0[listing[i]].fmt = "jpeg" /\ fs0[listing[i]].exif = "orig"
      /\ JustCommitted(i) )
    => fs[listing[i]].exif = (IF cfg.keep_metadata THEN "orig" ELSE "none")

\* C5: files are rewritten in place: right after an entry's commit its name
\* holds an image and its temp sibling is gone, and after a run in which
\* every image entry committed the directory holds the names it held before.
C5_RewrittenInPlace ==
  /\ \A i \in Entries :
       JustCommitted(i) =>
         /\ Exists(fs, listing[i]) /\ fs[listing[i]].kind = "image"
         /\ ~Exists(fs, TempPath(listing[i], cfg.save_format))
  /\ ( /\ pc = "done"
       /\ \A i \in QualifyingEntries : log[i].outcome = "committed" )
     => DOMAIN fs = DOMAIN fs0

\* the per-file failures the error taxonomy lists as recoverable
RecoverableFailures == StageErrors \cup {"decode_err", "temp_missing"}

\* C6: every per-file failure is recoverable: a step in which an entry fails
\* to decode, fails in a stage or finds no temp file at commit skips that
\* entry and leaves the scan at the next one, on its way to the summary.
C6_PerFileFailureSkipsOnlyThatFile ==
  [][\A i \in Entries :
       (log[i].outcome = "pending" /\ log'[i].outcome \in RecoverableFailures)
       => (pc' = "scan" /\ idx' = i)]_vars

\* the ranges the configuration must not have
InvalidRange ==
  \/ cfg.crop /\ cfg.crop_percent >= 100
  \/ /\ cfg.resize
     /\ \/ cfg.resize_percent <= 0
        \/ \E f \in DOMAIN fs0 :
             /\ fs0[f].kind = "image"
             /\ \/ ResizedDim(fs0[f].w, cfg.resize_percent) = 0
                \/ ResizedDim(fs0[f].h, cfg.resize_percent) = 0

\* C7: an invalid numeric range is fatal before any file is touched: no temp
\* file is created and no original is deleted, renamed or overwritten.
C7_InvalidRangeTouchesNothing ==
  InvalidRange => fs = fs0

\* the stage-error step of entry i
StageErrorStep(i) ==
  log[i].outcome = "pending" /\ log'[i].outcome \in StageErrors

\* C9: when the save, compress, resize or metadata stage of a file raises,
\* the scan moves to the next entry, the file's original is on disk as it was
\* opened, its temp output is still on disk if there was any (it is after a
\* save that succeeded in writing), and no other file is touched.
C9_StageErrorLeavesFilesAlone ==
  [][\A i \in Entries :
       StageErrorStep(i) =>
         /\ pc' = "scan" /\ idx' = i
         /\ listing[i] = cur.filename
         /\ Exists(fs', cur.filename) /\ fs'[cur.filename] = cur.opened
         /\ (Exists(fs, cur.new_filepath) => Exists(fs', cur.new_filepath))
         /\ \A p \in (DOMAIN fs \cup DOMAIN fs') \ {cur.new_filepath} :
              Exists(fs, p) /\ Exists(fs', p) /\ fs'[p] = fs[p]]_vars

\* an entry failed in compress, its original is on disk as it was before the
\* run and its temp output is on disk too
C9_CompressErrorSeen ==
  \E i \in Entries :
    /\ log[i].outcome = "compress_err"
    /\ idx = i
    /\ Exists(fs, listing[i]) /\ fs[listing[i]] = fs0[listing[i]]
    /\ Exists(fs, TempPath(listing[i], cfg.save_format))

\* C10: the temp path of the file in hand is no other enumerated image file,
\* whatever the names in the directory.
C10_TempPathIsNoOtherInput ==
  InStage =>
    \A j \in QualifyingEntries :
      listing[j] # cur.filename => cur.new_filepath # listing[j]

\* the documented arithmetic: crop_amount = floor(p / 100 * dimension)
DocumentedAmount(crop_percent, dim) == (crop_percent * dim) \div 100

DocumentedCrop(a) ==
  LET aw == DocumentedAmount(a.crop_percent, a.w)
      ah == DocumentedAmount(a.crop_percent, a.h)
  IN  CASE a.crop_position = "top" ->
             [x |-> 0, y |-> ah, w |-> a.w, h |-> a.h - ah]
        [] a.crop_position = "bottom" ->
             [x |-> 0, y |-> 0, w |-> a.w, h |-> a.h - ah]
        [] a.crop_position = "left" ->
             [x |-> aw, y |-> 0, w |-> a.w - aw, h |-> a.h]
        [] a.crop_position = "right" ->
             [x |-> 0, y |-> 0, w |-> a.w - aw, h |-> a.h]

Region(img) == [x |-> img.x, y |-> img.y, w |-> img.w, h |-> img.h]

\* C8: for every p in [0, 100) and every edge, crop_image of either variant
\* returns the region the documented arithmetic gives: top keeps the bottom
\* H - floor(p/100 * H) rows, bottom the top ones, left the right
\* W - floor(p/100 * W) columns, right the left ones.
C8_CropMatchesDocumentedArithmetic ==
  cropOut.kind # "none" => Region(cropOut.img) = DocumentedCrop(cropIn)

====
